---- MODULE Spec2Model ----
(***************************************************************************)
(* The React AuthProvider of @getmocha/users-service (the variant with     *)
(* fetchUser, isPending and isFetching) as a state machine on one          *)
(* single-threaded event loop.  Every action is one run-to-completion      *)
(* step of the event loop: a call of one of the provider's functions up    *)
(* to its first await, or the continuation that runs when an awaited       *)
(* network response arrives, together with the promise reactions           *)
(* (microtasks) it triggers.  The same-origin backend is the environment:  *)
(* it answers each request from the session it holds at that moment, and   *)
(* the answer reaches the page in a later step.                            *)
(***************************************************************************)
EXTENDS Integers, Sequences, FiniteSets, TLC

\* ---- bounds ----
MaxFetches == 2       \* user code starts a fetch only while fewer operations exist
MaxLogouts == 1       \* logout calls
MaxEffectRuns == 2    \* invocations of the mount effect in one commit (strict mode: 2)

\* ---- values ----
Null == "null"                  \* user === null
Users == {"u1", "u2"}           \* MochaUser records, each taken whole
NoOp == 0                       \* ref.current === null
NoCode == "none"                \* URLSearchParams.get('code') === null
Codes == {NoCode, "", "abc123"} \* what the page URL may carry
CodeUser == "u2"                \* the user the authorization code was issued for
InitialSessions == {Null, "u1"} \* the session cookie the browser arrives with
AppUrl == "app"                 \* the page that hosts the provider
LoginUrl == "https://accounts.example/o/oauth2" \* the redirectUrl the backend returns
NoCall == [fn |-> "none"]       \* no call of the service client is running

VARIABLES
  user,         \* useState<MochaUser | null>
  isPending,    \* useState(true)
  isFetching,   \* useState(false)
  userRef,      \* useRef: id of the fetch operation in the slot, or NoOp
  exchangeRef,  \* useRef: id of the exchange operation in the slot, or NoOp
  fetchOps,     \* the promises created by fetchUser, with their request
  exchOps,      \* the promises created by exchangeCodeForSessionToken
  logoutOps,    \* the promises created by logout
  mountOps,     \* fetch operations the mount effect attached its handlers to
  ret,          \* what the most recent call by user code or the effect returned
  session,      \* backend: the user of the session cookie, or Null
  code,         \* window.location.search: the code parameter
  phase,        \* "commit" while React runs the effects, then "running"
  effectRuns,   \* how often the mount effect has been invoked
  redirectOps,  \* the promises created by redirectToLogin, with their request
  location,     \* window.location.href: the application, or where it navigated to
  mwReqs,       \* backend: the requests passing through authMiddleware
  call,         \* backend: the running call of a function of the service client
  callsMade     \* backend: calls of the service client's functions so far

providerVars == <<user, isPending, isFetching, userRef, exchangeRef, fetchOps, exchOps,
                  logoutOps, mountOps, ret, session, code, phase, effectRuns>>

redirectVars == <<redirectOps, location>>

backendVars == <<mwReqs, call, callsMade>>

vars == <<providerVars, redirectVars, backendVars>>

\* The provider's own state (what the component instance holds), as a record,
\* so that one function can call another inside one step.
St ==
  [user |-> user, isPending |-> isPending, isFetching |-> isFetching,
   userRef |-> userRef, exchangeRef |-> exchangeRef, fetchOps |-> fetchOps,
   exchOps |-> exchOps, logoutOps |-> logoutOps, mountOps |-> mountOps, ret |-> ret]

Commit(s) ==
  /\ user' = s.user
  /\ isPending' = s.isPending
  /\ isFetching' = s.isFetching
  /\ userRef' = s.userRef
  /\ exchangeRef' = s.exchangeRef
  /\ fetchOps' = s.fetchOps
  /\ exchOps' = s.exchOps
  /\ logoutOps' = s.logoutOps
  /\ mountOps' = s.mountOps
  /\ ret' = s.ret

\* a call's result: a promise for operation `op`, in the state it had when
\* the call returned, or a synchronous throw
Returned(fn, kind, op, st) == [fn |-> fn, kind |-> kind, op |-> op, state |-> st]

Settled == {"resolved", "rejected"}

\* ---- fetchUser ----

\* fetch('/api/users/me') has been issued and its response is awaited
NewFetchOp == [phase |-> "awaitFetch", resp |-> "none", body |-> Null]

\* a settled operation: its response has been consumed
DoneFetchOp(outcome) == [phase |-> outcome, resp |-> "none", body |-> Null]

fetchUserFinallyKeepsSlot(s) == [s EXCEPT !.isFetching = FALSE]

fetchUserFinallyKeepsFlag(s) == [s EXCEPT !.userRef = NoOp]

\* the finally block of the operation
fetchUserFinally(s) == [s EXCEPT !.isFetching = FALSE, !.userRef = NoOp]

mountThenOnlyFulfilled(s, i, outcome) ==
  IF i \in s.mountOps /\ outcome = "resolved" THEN [s EXCEPT !.isPending = FALSE] ELSE s

\* the two handlers the mount effect passed to then(): both are
\* () => setIsPending(false), whatever the outcome of the operation
mountThen(s, i, outcome) ==
  IF i \in s.mountOps THEN [s EXCEPT !.isPending = FALSE] ELSE s

exchangeResumePropagates(s, i) ==
  [s EXCEPT !.exchOps =
     [j \in DOMAIN @ |->
        IF @[j].phase = "awaitFetchUser" /\ @[j].waitsOn = i
        THEN [@[j] EXCEPT !.phase = s.fetchOps[i].phase, !.waitsOn = NoOp] ELSE @[j]]]

\* the exchange operations suspended at `await fetchUser()` on operation i:
\* resolved or rejected, the try/catch ends and the exchange promise resolves
exchangeResume(s, i) ==
  [s EXCEPT !.exchOps =
     [j \in DOMAIN @ |->
        IF @[j].phase = "awaitFetchUser" /\ @[j].waitsOn = i
        THEN [@[j] EXCEPT !.phase = "resolved", !.waitsOn = NoOp] ELSE @[j]]]

\* operation i settles with `outcome`; its finally block has run; the
\* reactions registered on its promise run
settleFetch(s, i, outcome) ==
  LET s1 == fetchUserFinally(s)
      s2 == [s1 EXCEPT !.fetchOps[i] = DoneFetchOp(outcome)]
  IN exchangeResume(mountThen(s2, i, outcome), i)

fetchUserNoDedup(s) ==
  LET id == Len(s.fetchOps) + 1
  IN [s EXCEPT !.isFetching = TRUE,
               !.fetchOps = Append(@, NewFetchOp),
               !.userRef = id,
               !.ret = Returned("fetchUser", "promise", id, "pending")]

\* fetchUser(): the call, up to the first await of the operation it starts
fetchUser(s) ==
  IF s.userRef # NoOp
  THEN [s EXCEPT !.ret = Returned("fetchUser", "promise", s.userRef, "pending")]
  ELSE LET id == Len(s.fetchOps) + 1
       IN [s EXCEPT !.isFetching = TRUE,
                    !.fetchOps = Append(@, NewFetchOp),
                    !.userRef = id,
                    !.ret = Returned("fetchUser", "promise", id, "pending")]

onUserResponseClearsUser(s, i) ==
  IF s.fetchOps[i].resp = "ok"
  THEN [s EXCEPT !.fetchOps[i].phase = "awaitJson"]
  ELSE settleFetch([s EXCEPT !.user = Null], i, "rejected")

\* the continuation after `await fetch('/api/users/me')` of operation i
onUserResponse(s, i) ==
  IF s.fetchOps[i].resp = "ok"
  THEN [s EXCEPT !.fetchOps[i].phase = "awaitJson"]
  ELSE settleFetch(s, i, "rejected")

\* the continuation after `await response.json()` of operation i
onUserJson(s, i, parsed) ==
  IF parsed
  THEN settleFetch([s EXCEPT !.user = s.fetchOps[i].body], i, "resolved")
  ELSE settleFetch(s, i, "rejected")

\* ---- the mount effect ----
mountEffectNoWait(s) ==
  LET s1 == fetchUser(s)
  IN [s1 EXCEPT !.mountOps = @ \cup {s1.ret.op},
                !.isPending = FALSE,
                !.ret = Returned("mount", "promise", s1.ret.op, "pending")]

\* the effect calls fetchUser and attaches its two handlers to the promise
mountEffect(s) ==
  LET s1 == fetchUser(s)
  IN [s1 EXCEPT !.mountOps = @ \cup {s1.ret.op},
                !.ret = Returned("mount", "promise", s1.ret.op, "pending")]

\* ---- logout ----
logoutAfterRequest(s) ==
  LET id == Len(s.logoutOps) + 1
  IN [s EXCEPT !.logoutOps = Append(@, [phase |-> "awaitLogout", resp |-> "none"]),
               !.ret = Returned("logout", "promise", id, "pending")]

\* logout(): setUser(null), then fetch('/api/logout') is issued
logout(s) ==
  LET id == Len(s.logoutOps) + 1
  IN [s EXCEPT !.user = Null,
               !.logoutOps = Append(@, [phase |-> "awaitLogout", resp |-> "none"]),
               !.ret = Returned("logout", "promise", id, "pending")]

\* the continuation after `await fetch('/api/logout')`: the response is not
\* looked at, a transport failure is caught and logged
onLogoutResponse(s, k) ==
  [s EXCEPT !.logoutOps[k] = [phase |-> "resolved", resp |-> "none"]]

\* ---- exchangeCodeForSessionToken ----
exchangeNullCheckOnly(s, c) ==
  IF s.exchangeRef # NoOp
  THEN [s EXCEPT !.ret = Returned("exchange", "promise", s.exchangeRef, "pending")]
  ELSE IF c = NoCode
  THEN [s EXCEPT !.ret = Returned("exchange", "throw", NoOp, "none")]
  ELSE LET id == Len(s.exchOps) + 1
       IN [s EXCEPT !.exchOps = Append(@, [phase |-> "awaitPost", resp |-> "none",
                                           code |-> c, waitsOn |-> NoOp]),
                    !.exchangeRef = id,
                    !.ret = Returned("exchange", "promise", id, "pending")]

exchangeRetriesSettled(s, c) ==
  IF s.exchangeRef # NoOp /\ s.exchOps[s.exchangeRef].phase \notin Settled
  THEN [s EXCEPT !.ret = Returned("exchange", "promise", s.exchangeRef, "pending")]
  ELSE IF c = NoCode \/ c = ""
  THEN [s EXCEPT !.ret = Returned("exchange", "throw", NoOp, "none")]
  ELSE LET id == Len(s.exchOps) + 1
       IN [s EXCEPT !.exchOps = Append(@, [phase |-> "awaitPost", resp |-> "none",
                                           code |-> c, waitsOn |-> NoOp]),
                    !.exchangeRef = id,
                    !.ret = Returned("exchange", "promise", id, "pending")]

\* exchangeCodeForSessionToken(): the slot test, the code test, and the
\* operation up to its first await
exchangeCodeForSessionToken(s, c) ==
  IF s.exchangeRef # NoOp
  THEN [s EXCEPT !.ret = Returned("exchange", "promise", s.exchangeRef,
                                  IF s.exchOps[s.exchangeRef].phase \in Settled
                                  THEN s.exchOps[s.exchangeRef].phase ELSE "pending")]
  ELSE IF c = NoCode \/ c = ""
  THEN [s EXCEPT !.ret = Returned("exchange", "throw", NoOp, "none")]
  ELSE LET id == Len(s.exchOps) + 1
       IN [s EXCEPT !.exchOps = Append(@, [phase |-> "awaitPost", resp |-> "none",
                                           code |-> c, waitsOn |-> NoOp]),
                    !.exchangeRef = id,
                    !.ret = Returned("exchange", "promise", id, "pending")]

onSessionResponseClearsSlot(s, j) ==
  IF s.exchOps[j].resp = "ok"
  THEN LET s1 == fetchUser(s)
       IN [s1 EXCEPT !.exchOps[j].phase = "awaitFetchUser",
                     !.exchOps[j].waitsOn = s1.ret.op,
                     !.ret = s.ret]
  ELSE [s EXCEPT !.exchOps[j].phase = "resolved", !.exchangeRef = NoOp]

\* the continuation after `await fetch('/api/sessions', ...)` of operation j
onSessionResponse(s, j) ==
  IF s.exchOps[j].resp = "ok"
  THEN LET s1 == fetchUser(s)
       IN [s1 EXCEPT !.exchOps[j].phase = "awaitFetchUser",
                     !.exchOps[j].waitsOn = s1.ret.op,
                     !.ret = s.ret]
  ELSE [s EXCEPT !.exchOps[j].phase = "resolved"]

\* ---- actions: calls ----

\* React runs the provider's effect, in strict mode twice in the same commit
MountEffect ==
  /\ phase = "commit"
  /\ effectRuns < MaxEffectRuns
  /\ Commit(mountEffect(St))
  /\ effectRuns' = effectRuns + 1
  /\ UNCHANGED <<session, code, phase>>
  /\ UNCHANGED <<redirectVars, backendVars>>

\* the commit is over: from here on the event loop delivers responses
EndCommit ==
  /\ phase = "commit"
  /\ effectRuns >= 1
  /\ phase' = "running"
  /\ UNCHANGED <<user, isPending, isFetching, userRef, exchangeRef, fetchOps,
                 exchOps, logoutOps, mountOps, ret, session, code, effectRuns>>
  /\ UNCHANGED <<redirectVars, backendVars>>

FetchUserCall ==
  /\ Len(fetchOps) < MaxFetches \/ userRef # NoOp
  /\ Commit(fetchUser(St))
  /\ UNCHANGED <<session, code, phase, effectRuns>>
  /\ UNCHANGED <<redirectVars, backendVars>>

LogoutCall ==
  /\ Len(logoutOps) < MaxLogouts
  /\ Commit(logout(St))
  /\ UNCHANGED <<session, code, phase, effectRuns>>
  /\ UNCHANGED <<redirectVars, backendVars>>

ExchangeCall ==
  /\ Commit(exchangeCodeForSessionToken(St, code))
  /\ UNCHANGED <<session, code, phase, effectRuns>>
  /\ UNCHANGED <<redirectVars, backendVars>>

\* client-side navigation changes the query string without a page load
Navigate ==
  /\ \E c \in Codes : c # code /\ code' = c
  /\ UNCHANGED <<user, isPending, isFetching, userRef, exchangeRef, fetchOps,
                 exchOps, logoutOps, mountOps, ret, session, phase, effectRuns>>
  /\ UNCHANGED <<redirectVars, backendVars>>

\* ---- actions: the backend and the network ----

\* GET /api/users/me is answered from the session the backend sees: the
\* record, or a non-success status (401; any other non-success status takes
\* the same branch of fetchUser); or the request fails in transport
ServerUser ==
  \E i \in DOMAIN fetchOps :
    /\ fetchOps[i].phase = "awaitFetch" /\ fetchOps[i].resp = "none"
    /\ \/ /\ session # Null
          /\ fetchOps' = [fetchOps EXCEPT ![i].resp = "ok", ![i].body = session]
       \/ /\ session = Null
          /\ fetchOps' = [fetchOps EXCEPT ![i].resp = "401"]
       \/ fetchOps' = [fetchOps EXCEPT ![i].resp = "neterr"]
    /\ UNCHANGED <<user, isPending, isFetching, userRef, exchangeRef, exchOps,
                   logoutOps, mountOps, ret, session, code, phase, effectRuns>>
    /\ UNCHANGED <<redirectVars, backendVars>>

\* POST /api/sessions: the code is accepted and the cookie set, or the code
\* is refused, or the exchange fails in transport (before or after the
\* backend acted on it)
ServerSession ==
  \E j \in DOMAIN exchOps :
    /\ exchOps[j].phase = "awaitPost" /\ exchOps[j].resp = "none"
    /\ \/ /\ session' = CodeUser
          /\ exchOps' = [exchOps EXCEPT ![j].resp = "ok"]
       \/ /\ exchOps' = [exchOps EXCEPT ![j].resp = "400"]
          /\ UNCHANGED session
       \/ /\ exchOps' = [exchOps EXCEPT ![j].resp = "neterr"]
          /\ session' \in {session, CodeUser}
    /\ UNCHANGED <<user, isPending, isFetching, userRef, exchangeRef, fetchOps,
                   logoutOps, mountOps, ret, code, phase, effectRuns>>
    /\ UNCHANGED <<redirectVars, backendVars>>

\* GET /api/logout: the cookie is cleared, or the backend fails, or the
\* request fails in transport (before or after the backend acted on it)
ServerLogout ==
  \E k \in DOMAIN logoutOps :
    /\ logoutOps[k].phase = "awaitLogout" /\ logoutOps[k].resp = "none"
    /\ \/ /\ session' = Null
          /\ logoutOps' = [logoutOps EXCEPT ![k].resp = "ok"]
       \/ /\ logoutOps' = [logoutOps EXCEPT ![k].resp = "500"]
          /\ UNCHANGED session
       \/ /\ logoutOps' = [logoutOps EXCEPT ![k].resp = "neterr"]
          /\ session' \in {session, Null}
    /\ UNCHANGED <<user, isPending, isFetching, userRef, exchangeRef, fetchOps,
                   exchOps, mountOps, ret, code, phase, effectRuns>>
    /\ UNCHANGED <<redirectVars, backendVars>>

\* ---- actions: continuations ----

UserResponse ==
  \E i \in DOMAIN fetchOps :
    /\ phase = "running"
    /\ fetchOps[i].phase = "awaitFetch" /\ fetchOps[i].resp # "none"
    /\ Commit(onUserResponse(St, i))
    /\ UNCHANGED <<session, code, phase, effectRuns>>
    /\ UNCHANGED <<redirectVars, backendVars>>

UserJson ==
  \E i \in DOMAIN fetchOps, parsed \in BOOLEAN :
    /\ phase = "running"
    /\ fetchOps[i].phase = "awaitJson"
    /\ Commit(onUserJson(St, i, parsed))
    /\ UNCHANGED <<session, code, phase, effectRuns>>
    /\ UNCHANGED <<redirectVars, backendVars>>

SessionResponse ==
  \E j \in DOMAIN exchOps :
    /\ phase = "running"
    /\ exchOps[j].phase = "awaitPost" /\ exchOps[j].resp # "none"
    /\ Commit(onSessionResponse(St, j))
    /\ UNCHANGED <<session, code, phase, effectRuns>>
    /\ UNCHANGED <<redirectVars, backendVars>>

LogoutResponse ==
  \E k \in DOMAIN logoutOps :
    /\ phase = "running"
    /\ logoutOps[k].phase = "awaitLogout" /\ logoutOps[k].resp # "none"
    /\ Commit(onLogoutResponse(St, k))
    /\ UNCHANGED <<session, code, phase, effectRuns>>
    /\ UNCHANGED <<redirectVars, backendVars>>

Init ==
  /\ user = Null
  /\ isPending = TRUE
  /\ isFetching = FALSE
  /\ userRef = NoOp
  /\ exchangeRef = NoOp
  /\ fetchOps = <<>>
  /\ exchOps = <<>>
  /\ logoutOps = <<>>
  /\ mountOps = {}
  /\ ret = Returned("none", "none", NoOp, "none")
  /\ session \in InitialSessions
  /\ code \in Codes
  /\ phase = "commit"
  /\ effectRuns = 0
  /\ redirectOps = <<>>
  /\ location = AppUrl
  /\ mwReqs = <<>>
  /\ call = NoCall
  /\ callsMade = 0

Next ==
  \/ MountEffect
  \/ EndCommit
  \/ FetchUserCall
  \/ LogoutCall
  \/ ExchangeCall
  \/ Navigate
  \/ ServerUser
  \/ ServerSession
  \/ ServerLogout
  \/ UserResponse
  \/ UserJson
  \/ SessionResponse
  \/ LogoutResponse

Spec == Init /\ [][Next]_vars

TypeOK ==
  /\ user \in Users \cup {Null}
  /\ isPending \in BOOLEAN /\ isFetching \in BOOLEAN
  /\ userRef \in 0..Len(fetchOps)
  /\ exchangeRef \in 0..Len(exchOps)

\* ---- vocabulary of the properties ----

\* fetch operations whose request to /api/users/me has not been answered to the page
Outstanding == {i \in DOMAIN fetchOps : fetchOps[i].phase = "awaitFetch"}

\* fetch operations that have not settled
InFlight == {i \in DOMAIN fetchOps : fetchOps[i].phase \in {"awaitFetch", "awaitJson"}}

\* the step contains a fetchUser call by user code or by the mount effect
FetchUserCalled == ret' # ret /\ ret'.fn \in {"fetchUser", "mount"}

\* the step contains the fetchUser call of an exchange continuation
ExchangeFetchUserCalled(j) ==
  /\ j \in DOMAIN exchOps
  /\ exchOps[j].phase = "awaitPost"
  /\ exchOps'[j].phase = "awaitFetchUser"

\* the most recently completed fetch operation (operations complete in the
\* order they start, see C1), 0 when none has completed
LastCompleted ==
  LET done == {i \in DOMAIN fetchOps : fetchOps[i].phase \in Settled}
  IN IF done = {} THEN 0 ELSE CHOOSE i \in done : \A k \in done : k <= i

\* ---- C1 ----
\* C1: at most one request to /api/users/me is outstanding at any time; a
\* fetchUser call made while a fetch is in flight (by user code, by the
\* mount effect or by the exchange continuation) starts no request and
\* returns the operation that is in flight.
C1_SingleFlight ==
  /\ [](Cardinality(Outstanding) <= 1 /\ Cardinality(InFlight) <= 1)
  /\ [][InFlight # {} =>
          /\ Len(fetchOps') = Len(fetchOps)
          /\ FetchUserCalled => ret'.op \in InFlight
          /\ \A j \in DOMAIN exchOps :
               ExchangeFetchUserCalled(j) => exchOps'[j].waitsOn \in InFlight]_vars

\* the mount effect has run twice and one request is outstanding
C1_Witness ==
  /\ effectRuns >= 2
  /\ ret.fn = "mount"
  /\ Len(fetchOps) = 1
  /\ Outstanding = {1}

\* ---- C2 ----
\* C2: in the state where an exchange whose POST succeeded settles, the user
\* state is the user of the session the backend holds (stated for the runs
\* without a logout, and for a fetch that the backend answered and whose
\* body, if any, parsed).
C2_ExchangeUpdatesUser ==
  [][\A j \in DOMAIN exchOps :
       (/\ exchOps[j].phase = "awaitFetchUser"
        /\ exchOps'[j].phase = "resolved"
        /\ exchOps[j].resp = "ok"
        /\ logoutOps = <<>>
        /\ \/ fetchOps'[exchOps[j].waitsOn].phase = "resolved"
           \/ fetchOps[exchOps[j].waitsOn].resp = "401")
       => user' = session]_vars

\* ---- C3 ----
\* C3: at most one POST to /api/sessions is ever issued, and every
\* exchangeCodeForSessionToken call that returns a promise returns the
\* first operation, also after that operation has settled.
C3_ExchangeOnce ==
  /\ Len(exchOps) <= 1
  /\ (ret.fn = "exchange" /\ ret.kind = "promise") => (ret.op = 1 /\ exchangeRef = 1)
  /\ exchOps # <<>> => exchangeRef = 1

\* a call made after a failed exchange settled got the settled operation
C3_Witness ==
  /\ Len(exchOps) = 1
  /\ exchOps[1].resp = "400"
  /\ ret = Returned("exchange", "promise", 1, "resolved")
  /\ code = "abc123"

\* ---- C4 ----
\* C4: in the state where a logout call settles the user state is null
\* (stated for the runs in which no function of the provider was called
\* after that logout and no exchange was ever started, so that any fetch
\* completing meanwhile was in flight when logout was called).
C4_LogoutClearsUser ==
  [][\A k \in DOMAIN logoutOps :
       (/\ logoutOps[k].phase = "awaitLogout"
        /\ logoutOps'[k].phase = "resolved"
        /\ ret = Returned("logout", "promise", k, "pending")
        /\ exchOps = <<>>)
       => user' = Null]_vars

\* ---- C5 ----
\* C5: the user state holds a record only if the most recently completed
\* fetch of /api/users/me succeeded.
C5_RecordOnlyAfterSuccess ==
  user # Null => (LastCompleted # 0 /\ fetchOps[LastCompleted].phase = "resolved")

\* ---- C6 ----
\* C6: when a fetch settles after a non-success status or a transport
\* failure, the user state is null.
C6_FailedFetchClearsUser ==
  [][\A i \in DOMAIN fetchOps :
       (/\ fetchOps[i].phase = "awaitFetch"
        /\ fetchOps[i].resp \in {"401", "neterr"}
        /\ fetchOps'[i].phase = "rejected")
       => user' = Null]_vars

\* ---- C7 ----
\* C7: the fetchUser slot holds an operation exactly while that operation
\* is in flight, and a fetchUser call made when no fetch is in flight
\* starts a new request and returns the new operation.
C7_SlotClearedOnSettle ==
  /\ [](InFlight = IF userRef = NoOp THEN {} ELSE {userRef})
  /\ [][(InFlight = {} /\ FetchUserCalled) =>
          /\ Len(fetchOps') = Len(fetchOps) + 1
          /\ ret'.op = Len(fetchOps')
          /\ Outstanding' = {ret'.op}]_vars

\* a call after a failed fetch has started the second request
C7_Witness ==
  /\ Len(fetchOps) = 2
  /\ fetchOps[1].phase = "rejected"
  /\ Outstanding = {2}
  /\ ret = Returned("fetchUser", "promise", 2, "pending")

\* ---- C8 ----
\* C8: exchangeCodeForSessionToken called with no or an empty code and an
\* empty exchange slot throws at the call, issues no request and changes
\* nothing of the provider's state.
C8_NoCodeThrows ==
  [][(/\ exchangeRef = NoOp
      /\ code \in {NoCode, ""}
      /\ ret' # ret
      /\ ret'.fn = "exchange")
     => /\ ret'.kind = "throw"
        /\ UNCHANGED <<user, isPending, isFetching, userRef, exchangeRef,
                       fetchOps, exchOps, logoutOps, mountOps>>]_vars

\* the call threw on an empty code parameter
C8_Witness ==
  /\ ret = Returned("exchange", "throw", NoOp, "none")
  /\ code = ""
  /\ exchangeRef = NoOp
  /\ exchOps = <<>>

\* ---- C9 ----
\* C9: isPending is true exactly until the operation the mount effect
\* waits for settles, in success or failure, and never turns true again;
\* the commit that mounts the provider leaves exactly one request issued.
C9_PendingUntilMountSettles ==
  /\ [](isPending <=> (\A i \in mountOps : fetchOps[i].phase \notin Settled))
  /\ [](effectRuns >= 1 => Cardinality(mountOps) = 1)
  /\ []((phase = "commit" /\ effectRuns >= 1) => (Len(fetchOps) = 1 /\ Outstanding = {1}))
  /\ [][~isPending => ~isPending']_vars

\* the mount effect ran twice, its fetch failed and isPending is false
C9_Witness ==
  /\ effectRuns >= 2
  /\ mountOps = {1}
  /\ fetchOps[1].phase = "rejected"
  /\ ~isPending

\* ---- C10 ----
\* C10: isFetching is true exactly while a fetch operation is in flight,
\* that is, while the fetchUser slot is occupied.
C10_FetchingIffInFlight ==
  /\ isFetching <=> (InFlight # {})
  /\ isFetching <=> (userRef # NoOp)

\* the fetch started by a successful exchange is in flight
C10_Witness ==
  /\ isFetching
  /\ \E j \in DOMAIN exchOps :
       /\ exchOps[j].phase = "awaitFetchUser"
       /\ exchOps[j].waitsOn = 2
       /\ 2 \in InFlight

\* ======================================================================
\* redirectToLogin of the AuthProvider
\* ======================================================================

MaxRedirects == 2     \* redirectToLogin calls

\* the page is still loaded: a full navigation unloads the provider
PageAlive == location = AppUrl

onRedirectResponseNoOkCheck(ops, r) == [ops EXCEPT ![r].phase = "awaitJson"]

\* redirectToLogin(): fetch('/api/oauth/google/redirect_url') is issued
redirectToLogin(ops) == Append(ops, [phase |-> "awaitFetch", resp |-> "none"])

\* the continuation after `await fetch(...)` of operation r: a non-success
\* status throws, a transport failure rejects the await; both are caught and
\* logged, and the promise resolves
onRedirectResponse(ops, r) ==
  IF ops[r].resp = "ok"
  THEN [ops EXCEPT ![r].phase = "awaitJson"]
  ELSE [ops EXCEPT ![r] = [phase |-> "resolved", resp |-> "none"]]

\* the continuation after `await response.json()` of operation r; the URL
\* assigned to window.location.href, or AppUrl when the body did not parse
redirectTarget(parsed) == IF parsed THEN LoginUrl ELSE AppUrl

RedirectCall ==
  /\ PageAlive
  /\ Len(redirectOps) < MaxRedirects
  /\ redirectOps' = redirectToLogin(redirectOps)
  /\ ret' = Returned("redirectToLogin", "promise", Len(redirectOps) + 1, "pending")
  /\ UNCHANGED <<user, isPending, isFetching, userRef, exchangeRef, fetchOps, exchOps,
                 logoutOps, mountOps, session, code, phase, effectRuns>>
  /\ UNCHANGED <<location, backendVars>>

\* GET /api/oauth/google/redirect_url: the backend returns { redirectUrl },
\* or fails, or the request fails in transport
ServerRedirect ==
  \E r \in DOMAIN redirectOps :
    /\ redirectOps[r].phase = "awaitFetch" /\ redirectOps[r].resp = "none"
    /\ \E a \in {"ok", "500", "neterr"} :
         redirectOps' = [redirectOps EXCEPT ![r].resp = a]
    /\ UNCHANGED <<providerVars, location, backendVars>>

RedirectResponse ==
  \E r \in DOMAIN redirectOps :
    /\ PageAlive
    /\ phase = "running"
    /\ redirectOps[r].phase = "awaitFetch" /\ redirectOps[r].resp # "none"
    /\ redirectOps' = onRedirectResponse(redirectOps, r)
    /\ UNCHANGED <<providerVars, location, backendVars>>

RedirectJson ==
  \E r \in DOMAIN redirectOps, parsed \in BOOLEAN :
    /\ PageAlive
    /\ phase = "running"
    /\ redirectOps[r].phase = "awaitJson"
    /\ location' = redirectTarget(parsed)
    /\ redirectOps' = [redirectOps EXCEPT ![r] = [phase |-> "resolved", resp |-> "none"]]
    /\ UNCHANGED <<providerVars, backendVars>>

\* the provider with its mount-time fetch, and redirectToLogin
NextRedirect ==
  \/ PageAlive /\ MountEffect
  \/ PageAlive /\ EndCommit
  \/ PageAlive /\ ServerUser
  \/ PageAlive /\ UserResponse
  \/ PageAlive /\ UserJson
  \/ RedirectCall
  \/ ServerRedirect
  \/ RedirectResponse
  \/ RedirectJson

SpecRedirect == Init /\ [][NextRedirect]_vars

\* ---- C15 ----
\* C15: the page navigates only in the continuation of a redirect request
\* that was answered with success, and then to the returned URL; a request
\* answered with a non-success status or failed in transport ends without
\* navigation; the promise of redirectToLogin only ever resolves; and no
\* step of redirectToLogin changes the user state, the flags or the slots.
C15_RedirectOnlyOnSuccess ==
  /\ [](\A r \in DOMAIN redirectOps : redirectOps[r].phase # "rejected")
  /\ [][location' # location =>
          \E r \in DOMAIN redirectOps :
            /\ redirectOps[r].phase = "awaitJson"
            /\ redirectOps'[r].phase = "resolved"
            /\ location' = LoginUrl]_vars
  /\ [][\A r \in DOMAIN redirectOps :
          (/\ redirectOps[r].phase = "awaitFetch"
           /\ redirectOps[r].resp \in {"500", "neterr"}
           /\ redirectOps'[r].phase # "awaitFetch")
          => (redirectOps'[r].phase = "resolved" /\ location' = location)]_vars
  /\ [][redirectOps' # redirectOps =>
          UNCHANGED <<user, isPending, isFetching, userRef, exchangeRef>>]_vars

\* a first redirectToLogin failed without navigating, a second one navigated
C15_Witness ==
  /\ Len(redirectOps) = 2
  /\ redirectOps[1].phase = "resolved"
  /\ redirectOps[2].phase = "resolved"
  /\ location = LoginUrl
  /\ userRef # NoOp

\* ---- C20 ----
\* C20: in the state where a logout request has just been issued the user
\* state is already null; when the request is answered, with success, with
\* a non-success status or with a transport failure, the continuation leaves
\* the user state as it is and the promise of logout resolves.
C20_LogoutOptimistic ==
  /\ [](\A k \in DOMAIN logoutOps : logoutOps[k].phase # "rejected")
  /\ [][\A k \in DOMAIN logoutOps' :
          k \notin DOMAIN logoutOps =>
            (user' = Null /\ logoutOps'[k] = [phase |-> "awaitLogout", resp |-> "none"])]_vars
  /\ [][\A k \in DOMAIN logoutOps :
          (logoutOps[k].phase = "awaitLogout" /\ logoutOps'[k].phase # "awaitLogout")
          => (logoutOps'[k].phase = "resolved" /\ user' = user)]_vars

\* the user was fetched, logout cleared it, the logout request failed (the
\* backend still holds the session) and the promise resolved
C20_Witness ==
  /\ Len(fetchOps) = 1
  /\ fetchOps[1].phase = "resolved"
  /\ exchOps = <<>>
  /\ Len(logoutOps) = 1
  /\ logoutOps[1].phase = "resolved"
  /\ session # Null
  /\ user = Null

\* ======================================================================
\* The AuthProvider variant with loadUser (no mount effect, no flags).
\* It has the same user state, the same two refs and the same logout and
\* exchangeCodeForSessionToken; fetchOps holds the operations of loadUser.
\* ======================================================================

\* loadUser(): the call, up to the first await of the operation it starts
loadUser(s) ==
  IF s.userRef # NoOp
  THEN [s EXCEPT !.ret = Returned("loadUser", "promise", s.userRef,
                                  IF s.fetchOps[s.userRef].phase \in Settled
                                  THEN s.fetchOps[s.userRef].phase ELSE "pending")]
  ELSE LET id == Len(s.fetchOps) + 1
       IN [s EXCEPT !.fetchOps = Append(@, NewFetchOp),
                    !.userRef = id,
                    !.ret = Returned("loadUser", "promise", id, "pending")]

\* operation i of loadUser ends: there is no finally block, the slot keeps
\* the promise; the promise resolves on every path
settleLoad(s, i) ==
  exchangeResume([s EXCEPT !.fetchOps[i] = DoneFetchOp("resolved")], i)

\* the continuation after `await fetch('/api/users/me')` of operation i
onLoadResponse(s, i) ==
  IF s.fetchOps[i].resp = "ok"
  THEN [s EXCEPT !.fetchOps[i].phase = "awaitJson"]
  ELSE settleLoad([s EXCEPT !.user = Null], i)

\* the continuation after `await response.json()` of operation i
onLoadJson(s, i, parsed) ==
  IF parsed
  THEN settleLoad([s EXCEPT !.user = s.fetchOps[i].body], i)
  ELSE settleLoad([s EXCEPT !.user = Null], i)

\* the continuation after `await fetch('/api/sessions', ...)` of operation j
onLoadSessionResponse(s, j) ==
  IF s.exchOps[j].resp = "ok"
  THEN LET s1 == loadUser(s)
       IN [s1 EXCEPT !.exchOps[j].phase =
                        IF s1.fetchOps[s1.ret.op].phase \in Settled
                        THEN "resolved" ELSE "awaitFetchUser",
                     !.exchOps[j].waitsOn =
                        IF s1.fetchOps[s1.ret.op].phase \in Settled
                        THEN NoOp ELSE s1.ret.op,
                     !.ret = s.ret]
  ELSE [s EXCEPT !.exchOps[j].phase = "resolved"]

LoadUserCall ==
  /\ Len(fetchOps) < MaxFetches \/ userRef # NoOp
  /\ Commit(loadUser(St))
  /\ UNCHANGED <<session, code, phase, effectRuns>>
  /\ UNCHANGED <<redirectVars, backendVars>>

LoadUserResponse ==
  \E i \in DOMAIN fetchOps :
    /\ fetchOps[i].phase = "awaitFetch" /\ fetchOps[i].resp # "none"
    /\ Commit(onLoadResponse(St, i))
    /\ UNCHANGED <<session, code, phase, effectRuns>>
    /\ UNCHANGED <<redirectVars, backendVars>>

LoadUserJson ==
  \E i \in DOMAIN fetchOps, parsed \in BOOLEAN :
    /\ fetchOps[i].phase = "awaitJson"
    /\ Commit(onLoadJson(St, i, parsed))
    /\ UNCHANGED <<session, code, phase, effectRuns>>
    /\ UNCHANGED <<redirectVars, backendVars>>

LoadSessionResponse ==
  \E j \in DOMAIN exchOps :
    /\ exchOps[j].phase = "awaitPost" /\ exchOps[j].resp # "none"
    /\ Commit(onLoadSessionResponse(St, j))
    /\ UNCHANGED <<session, code, phase, effectRuns>>
    /\ UNCHANGED <<redirectVars, backendVars>>

\* the provider renders and nothing is fetched: isPending and isFetching do
\* not exist in this variant and keep their values
InitLoad ==
  /\ user = Null
  /\ isPending = FALSE
  /\ isFetching = FALSE
  /\ userRef = NoOp
  /\ exchangeRef = NoOp
  /\ fetchOps = <<>>
  /\ exchOps = <<>>
  /\ logoutOps = <<>>
  /\ mountOps = {}
  /\ ret = Returned("none", "none", NoOp, "none")
  /\ session \in InitialSessions
  /\ code \in Codes
  /\ phase = "running"
  /\ effectRuns = 0
  /\ redirectOps = <<>>
  /\ location = AppUrl
  /\ mwReqs = <<>>
  /\ call = NoCall
  /\ callsMade = 0

NextLoad ==
  \/ LoadUserCall
  \/ LogoutCall
  \/ ExchangeCall
  \/ Navigate
  \/ ServerUser
  \/ ServerSession
  \/ ServerLogout
  \/ LoadUserResponse
  \/ LoadUserJson
  \/ LoadSessionResponse
  \/ LogoutResponse

SpecLoad == InitLoad /\ [][NextLoad]_vars

\* the step contains a loadUser call by user code
LoadUserCalled == ret' # ret /\ ret'.fn = "loadUser"

\* the step contains the loadUser call of an exchange continuation
ExchangeLoadUserCalled ==
  \E j \in DOMAIN exchOps :
    /\ exchOps[j].phase = "awaitPost"
    /\ exchOps[j].resp = "ok"
    /\ exchOps'[j].phase # "awaitPost"

\* ---- C18 ----
\* C18: a loadUser call made when no load is in flight, by user code or by
\* the continuation of a successful exchange, issues a request to
\* /api/users/me.
C18_LoadUserRequests ==
  [][(InFlight = {} /\ (LoadUserCalled \/ ExchangeLoadUserCalled))
     => (Len(fetchOps') = Len(fetchOps) + 1 /\ Outstanding' = {Len(fetchOps')})]_vars

\* ======================================================================
\* The backend: the functions of the service client, each a stateless
\* call that issues its request to the remote directory, awaits the answer
\* and returns or throws.
\* ======================================================================

MaxCalls == 2         \* calls of the service client's functions

SUPPORTED_OAUTH_PROVIDERS == {"google"}
Providers == {"google", "github"}          \* what a caller may pass as provider
Tokens == {"tokA", "tokB", "stale"}        \* session tokens a caller may pass
AuthCodes == {"abc123", "used"}            \* authorization codes a caller may pass
Undefined == "undefined"
Void == "void"

\* the remote directory: the user of a session token, Null for one it rejects
Directory(tok) ==
  CASE tok = "tokA" -> "u1"
    [] tok = "tokB" -> "u2"
    [] OTHER -> Null

\* a property of a parsed JSON object
Field(obj, name) == IF name \in DOMAIN obj THEN obj[name] ELSE Undefined

NoResp == [status |-> "none"]

\* the bodies the remote directory sends with a success status
OkBody(fn, arg) ==
  CASE fn = "getOAuthRedirectUrl" -> [redirect_url |-> LoginUrl]
    [] fn = "exchangeCodeForSessionToken" -> [session_token |-> "tokB"]
    [] fn = "getCurrentUser" -> [data |-> Directory(arg)]
    [] OTHER -> [success |-> "true"]

\* the remote directory accepts the request
Accepts(fn, arg) ==
  CASE fn = "getOAuthRedirectUrl" -> arg \in SUPPORTED_OAUTH_PROVIDERS
    [] fn = "exchangeCodeForSessionToken" -> arg = "abc123"
    [] OTHER -> Directory(arg) # Null

\* what can come back: the expected body, a success status with a body that
\* is not JSON or lacks the expected property, a non-success status, or a
\* transport failure
RemoteResponses(fn, arg) ==
  (IF Accepts(fn, arg)
   THEN {[status |-> "ok", parses |-> TRUE, body |-> OkBody(fn, arg)]}
   ELSE {})
  \cup {[status |-> "ok", parses |-> FALSE, body |-> [raw |-> "<html>"]],
        [status |-> "ok", parses |-> TRUE, body |-> [message |-> "hello"]],
        [status |-> "fail"],
        [status |-> "neterr"]}

\* the request a function issues
RequestOf(fn, arg) ==
  CASE fn = "getOAuthRedirectUrl" ->
         [method |-> "GET", path |-> <<"oauth", arg, "redirect_url">>, bearer |-> Null]
    [] fn = "exchangeCodeForSessionToken" ->
         [method |-> "POST", path |-> <<"sessions">>, bearer |-> Null]
    [] fn = "getCurrentUser" ->
         [method |-> "GET", path |-> <<"users", "me">>, bearer |-> arg]
    [] OTHER ->
         [method |-> "DELETE", path |-> <<"sessions">>, bearer |-> arg]

Issued(fn, arg) ==
  [fn |-> fn, arg |-> arg, pc |-> "awaitFetch", reqs |-> <<RequestOf(fn, arg)>>,
   resp |-> NoResp, result |-> Undefined]

Finish(c, how, value) == [c EXCEPT !.pc = how, !.result = value]

getOAuthRedirectUrlNoProviderCheck(provider) == Issued("getOAuthRedirectUrl", provider)

\* getOAuthRedirectUrl(provider, options), up to its await
getOAuthRedirectUrlStart(provider) ==
  IF provider \notin SUPPORTED_OAUTH_PROVIDERS
  THEN [fn |-> "getOAuthRedirectUrl", arg |-> provider, pc |-> "threw", reqs |-> <<>>,
        resp |-> NoResp, result |-> "Unsupported OAuth provider"]
  ELSE Issued("getOAuthRedirectUrl", provider)

\* getOAuthRedirectUrl after the answer: nothing is caught
getOAuthRedirectUrlReturn(c) ==
  IF c.resp.status # "ok" THEN Finish(c, "threw", "Error")
  ELSE IF ~c.resp.parses THEN Finish(c, "threw", "SyntaxError")
  ELSE Finish(c, "returned", Field(c.resp.body, "redirect_url"))

backendExchangeRetries(c) ==
  IF c.resp.status # "ok" /\ Len(c.reqs) < 2
  THEN [c EXCEPT !.reqs = Append(@, RequestOf(c.fn, c.arg)), !.resp = NoResp]
  ELSE IF c.resp.status # "ok" THEN Finish(c, "threw", "Error")
  ELSE IF ~c.resp.parses THEN Finish(c, "threw", "SyntaxError")
  ELSE Finish(c, "returned", Field(c.resp.body, "session_token"))

\* the backend's exchangeCodeForSessionToken after the answer
backendExchangeReturn(c) ==
  IF c.resp.status # "ok" THEN Finish(c, "threw", "Error")
  ELSE IF ~c.resp.parses THEN Finish(c, "threw", "SyntaxError")
  ELSE Finish(c, "returned", Field(c.resp.body, "session_token"))

getCurrentUserWholeBody(resp) ==
  IF resp.status = "ok" /\ resp.parses
  THEN (IF "data" \in DOMAIN resp.body THEN "{data}" ELSE Undefined)
  ELSE Null

\* the value getCurrentUser returns for an answer: the data property of the
\* body; null for a non-success status, and for a transport failure or a
\* body that does not parse, which the catch block turns into null
getCurrentUser(resp) ==
  IF resp.status = "ok" /\ resp.parses THEN Field(resp.body, "data") ELSE Null

getCurrentUserReturn(c) == Finish(c, "returned", getCurrentUser(c.resp))

deleteSessionThrows(c) ==
  IF c.resp.status = "neterr" THEN Finish(c, "threw", "TypeError")
  ELSE Finish(c, "returned", Void)

\* deleteSession after the answer: the status is not looked at, a transport
\* failure is caught and logged
deleteSessionReturn(c) == Finish(c, "returned", Void)

ClientFns ==
  {"getOAuthRedirectUrl", "exchangeCodeForSessionToken", "getCurrentUser", "deleteSession"}

ArgsOf(fn) ==
  CASE fn = "getOAuthRedirectUrl" -> Providers
    [] fn = "exchangeCodeForSessionToken" -> AuthCodes
    [] OTHER -> Tokens

clientStart(fn, arg) ==
  IF fn = "getOAuthRedirectUrl" THEN getOAuthRedirectUrlStart(arg) ELSE Issued(fn, arg)

clientReturn(c) ==
  CASE c.fn = "getOAuthRedirectUrl" -> getOAuthRedirectUrlReturn(c)
    [] c.fn = "exchangeCodeForSessionToken" -> backendExchangeReturn(c)
    [] c.fn = "getCurrentUser" -> getCurrentUserReturn(c)
    [] OTHER -> deleteSessionReturn(c)

CallRunning == call.fn # "none" /\ call.pc = "awaitFetch"

\* the application calls a function of the service client
ClientCall ==
  /\ ~CallRunning
  /\ callsMade < MaxCalls
  /\ \E fn \in ClientFns : \E arg \in ArgsOf(fn) : call' = clientStart(fn, arg)
  /\ callsMade' = callsMade + 1
  /\ UNCHANGED <<providerVars, redirectVars, mwReqs>>

\* the remote directory answers the request last issued, or it is lost
ClientRemote ==
  /\ CallRunning
  /\ call.resp = NoResp
  /\ \E a \in RemoteResponses(call.fn, call.arg) : call' = [call EXCEPT !.resp = a]
  /\ UNCHANGED <<providerVars, redirectVars, mwReqs, callsMade>>

\* the continuation of the call
ClientReturn ==
  /\ CallRunning
  /\ call.resp # NoResp
  /\ call' = clientReturn(call)
  /\ UNCHANGED <<providerVars, redirectVars, mwReqs, callsMade>>

InitBackend == Init /\ session = Null /\ code = NoCode

NextClient ==
  \/ ClientCall
  \/ ClientRemote
  \/ ClientReturn

SpecClient == InitBackend /\ [][NextClient]_vars

Finished(fn) == call.fn = fn /\ call.pc \in {"returned", "threw"}

WellFormed(fn) ==
  call.resp.status = "ok" /\ call.resp.parses /\ call.resp.body = OkBody(fn, call.arg)

\* ---- C13 ----
\* C13: getCurrentUser never throws; for a non-success status and for a
\* transport failure it returns null; for a success answer with a well-formed
\* body it returns the record under data.
C13_GetCurrentUserNeverRaises ==
  call.fn = "getCurrentUser" =>
    /\ call.pc # "threw"
    /\ Len(call.reqs) = 1
    /\ call.pc = "returned" =>
         /\ call.resp.status \in {"fail", "neterr"} => call.result = Null
         /\ WellFormed("getCurrentUser") => call.result = Directory(call.arg)

\* a call returned the record of the token's user
C13_Witness ==
  /\ Finished("getCurrentUser")
  /\ call.arg = "tokA"
  /\ WellFormed("getCurrentUser")
  /\ call.result = "u1"

\* ---- C14 ----
\* C14: getOAuthRedirectUrl with an unsupported provider throws without a
\* request; with a supported provider it issues one GET, throws on a
\* non-success status and otherwise returns the redirect_url of the body.
C14_RedirectUrlProviderCheck ==
  call.fn = "getOAuthRedirectUrl" =>
    /\ call.arg \notin SUPPORTED_OAUTH_PROVIDERS => (call.pc = "threw" /\ call.reqs = <<>>)
    /\ call.arg \in SUPPORTED_OAUTH_PROVIDERS =>
         /\ Len(call.reqs) = 1
         /\ call.reqs[1].method = "GET"
         /\ call.reqs[1].path = <<"oauth", call.arg, "redirect_url">>
         /\ (call.pc # "awaitFetch" /\ call.resp.status = "fail") => call.pc = "threw"
         /\ (call.pc # "awaitFetch" /\ call.resp.status = "ok" /\ call.resp.parses) =>
              (call.pc = "returned" /\ call.result = Field(call.resp.body, "redirect_url"))
         /\ (call.pc # "awaitFetch" /\ WellFormed("getOAuthRedirectUrl")) =>
              call.result = LoginUrl

\* a second call, with an unsupported provider, threw without a request
C14_Witness ==
  /\ Finished("getOAuthRedirectUrl")
  /\ call.arg = "github"
  /\ call.pc = "threw"
  /\ call.reqs = <<>>
  /\ callsMade = 2

\* ---- C16 ----
\* C16: a call of the backend's exchangeCodeForSessionToken issues exactly
\* one POST to /sessions; on a non-success answer it throws after that one
\* request, on success it returns the session_token of the body.
C16_ExchangeNoRetry ==
  call.fn = "exchangeCodeForSessionToken" =>
    /\ Len(call.reqs) = 1
    /\ call.reqs[1].method = "POST" /\ call.reqs[1].path = <<"sessions">>
    /\ (call.pc # "awaitFetch" /\ call.resp.status = "fail") => call.pc = "threw"
    /\ (call.pc # "awaitFetch" /\ call.resp.status = "ok" /\ call.resp.parses) =>
         (call.pc = "returned" /\ call.result = Field(call.resp.body, "session_token"))
    /\ (call.pc # "awaitFetch" /\ WellFormed("exchangeCodeForSessionToken")) =>
         call.result = "tokB"

\* the exchange of a used code failed after one request
C16_Witness ==
  /\ Finished("exchangeCodeForSessionToken")
  /\ call.arg = "used"
  /\ call.resp.status = "fail"
  /\ call.pc = "threw"
  /\ Len(call.reqs) = 1

\* ---- C17 ----
\* C17: deleteSession issues exactly one DELETE to /sessions and returns
\* normally whatever the answer: a non-success status and a transport
\* failure are not surfaced.
C17_DeleteSessionBestEffort ==
  call.fn = "deleteSession" =>
    /\ Len(call.reqs) = 1
    /\ call.reqs[1].method = "DELETE" /\ call.reqs[1].path = <<"sessions">>
    /\ call.pc # "threw"
    /\ call.pc # "awaitFetch" => (call.pc = "returned" /\ call.result = Void)

\* deleteSession returned although the request failed in transport
C17_Witness ==
  /\ Finished("deleteSession")
  /\ call.resp.status = "neterr"
  /\ call.pc = "returned"


\* ======================================================================
\* authMiddleware: one run per request, each with its own context.
\* ======================================================================

MaxRequests == 2      \* requests that reach authMiddleware

NoCookie == Undefined                  \* getCookie found no session cookie
Cookies == {NoCookie} \cup Tokens

Falsy(v) == v \in {Null, Undefined}

Unauthorized == [error |-> "Unauthorized"]
NoBody == [error |-> "none"]

mwSetUserShared(reqs, i, u) == [k \in DOMAIN reqs |-> [reqs[k] EXCEPT !.ctx = u]]

\* c.set('user', user): the context of this request
mwSetUser(reqs, i, u) == [reqs EXCEPT ![i].ctx = u]

authMiddlewareNoCookieCheck(cookie) ==
  [cookie |-> cookie, pc |-> "awaitUser", calls |-> 1, resp |-> NoResp,
   ctx |-> Undefined, nexts |-> 0, handled |-> 0, seen |-> Undefined,
   status |-> 0, body |-> NoBody]

\* authMiddleware up to its await
authMiddlewareStart(cookie) ==
  IF cookie = NoCookie
  THEN [cookie |-> cookie, pc |-> "responded", calls |-> 0, resp |-> NoResp,
        ctx |-> Undefined, nexts |-> 0, handled |-> 0, seen |-> Undefined,
        status |-> 401, body |-> Unauthorized]
  ELSE [cookie |-> cookie, pc |-> "awaitUser", calls |-> 1, resp |-> NoResp,
        ctx |-> Undefined, nexts |-> 0, handled |-> 0, seen |-> Undefined,
        status |-> 0, body |-> NoBody]

authMiddlewareNoUserCheck(reqs, i) ==
  [mwSetUser(reqs, i, getCurrentUser(reqs[i].resp))
     EXCEPT ![i].pc = "downstream", ![i].nexts = @ + 1]

\* authMiddleware after getCurrentUser has returned
authMiddlewareResume(reqs, i) ==
  IF Falsy(getCurrentUser(reqs[i].resp))
  THEN [reqs EXCEPT ![i].pc = "threw", ![i].status = 401]
  ELSE [mwSetUser(reqs, i, getCurrentUser(reqs[i].resp))
          EXCEPT ![i].pc = "downstream", ![i].nexts = @ + 1]

\* a request reaches a route protected by authMiddleware
MwArrive ==
  /\ Len(mwReqs) < MaxRequests
  /\ \E cookie \in Cookies : mwReqs' = Append(mwReqs, authMiddlewareStart(cookie))
  /\ UNCHANGED <<providerVars, redirectVars, call, callsMade>>

\* the remote directory answers the getCurrentUser call of a request
MwRemote ==
  /\ \E i \in DOMAIN mwReqs :
       /\ mwReqs[i].pc = "awaitUser"
       /\ mwReqs[i].resp = NoResp
       /\ \E a \in RemoteResponses("getCurrentUser", mwReqs[i].cookie) :
            mwReqs' = [mwReqs EXCEPT ![i].resp = a]
  /\ UNCHANGED <<providerVars, redirectVars, call, callsMade>>

\* the middleware of a request resumes with the value of getCurrentUser
MwResume ==
  /\ \E i \in DOMAIN mwReqs :
       /\ mwReqs[i].pc = "awaitUser"
       /\ mwReqs[i].resp # NoResp
       /\ mwReqs' = authMiddlewareResume(mwReqs, i)
  /\ UNCHANGED <<providerVars, redirectVars, call, callsMade>>

\* the downstream handler of a request runs and reads c.get("user")
MwHandler ==
  /\ \E i \in DOMAIN mwReqs :
       /\ mwReqs[i].pc = "downstream"
       /\ mwReqs' = [mwReqs EXCEPT ![i].pc = "done", ![i].handled = @ + 1,
                                   ![i].seen = mwReqs[i].ctx, ![i].status = 200]
  /\ UNCHANGED <<providerVars, redirectVars, call, callsMade>>

NextMiddleware ==
  \/ MwArrive
  \/ MwRemote
  \/ MwResume
  \/ MwHandler

SpecMiddleware == InitBackend /\ [][NextMiddleware]_vars

\* getCurrentUser has returned to the middleware of request i
Resolved(i) == mwReqs[i].resp # NoResp /\ mwReqs[i].pc # "awaitUser"

C12_AbsentUserThrows401 ==
  \A i \in DOMAIN mwReqs :
    (Resolved(i) /\ mwReqs[i].resp.status \in {"fail", "neterr"}) =>
      /\ mwReqs[i].pc = "threw"
      /\ mwReqs[i].status = 401
      /\ mwReqs[i].ctx = Undefined
      /\ mwReqs[i].nexts = 0 /\ mwReqs[i].handled = 0

\* a stale token was refused by the directory and a second request failed
\* in transport: both threw
C12_Witness ==
  /\ Len(mwReqs) = 2
  /\ mwReqs[1].cookie = "stale" /\ mwReqs[1].resp.status = "fail" /\ mwReqs[1].pc = "threw"
  /\ mwReqs[2].cookie = "tokA" /\ mwReqs[2].resp.status = "neterr" /\ mwReqs[2].pc = "threw"

\* ---- C19 ----
\* C19: when getCurrentUser returns a user record for the request's cookie,
\* the middleware has made one call to the directory, the context's user is
\* that record from the moment downstream runs, downstream runs once, and
\* the handler sees the user of its own request's cookie whatever other
\* requests are in progress.
C19_OwnUserDownstream ==
  \A i \in DOMAIN mwReqs :
    /\ (Resolved(i) /\ ~Falsy(getCurrentUser(mwReqs[i].resp))) =>
         /\ mwReqs[i].pc \in {"downstream", "done"}
         /\ mwReqs[i].calls = 1
         /\ mwReqs[i].nexts = 1
         /\ mwReqs[i].ctx = getCurrentUser(mwReqs[i].resp)
         /\ mwReqs[i].ctx = Directory(mwReqs[i].cookie)
         /\ mwReqs[i].handled = (IF mwReqs[i].pc = "done" THEN 1 ELSE 0)
    /\ mwReqs[i].pc = "done" => mwReqs[i].seen = Directory(mwReqs[i].cookie)
    /\ mwReqs[i].handled > 0 => ~Falsy(mwReqs[i].seen)

\* two requests of different users overlap: the second was resolved and
\* handled while the first was between c.set and its handler
C19_Witness ==
  /\ Len(mwReqs) = 2
  /\ mwReqs[1].cookie = "tokA" /\ mwReqs[1].pc = "downstream" /\ mwReqs[1].ctx = "u1"
  /\ mwReqs[2].cookie = "tokB" /\ mwReqs[2].pc = "done" /\ mwReqs[2].seen = "u2"


\* ======================================================================
\* The AuthProvider again (Spec): requests that are never answered, the
\* writers of the user state, the outcome of the exchange promise and the
\* exchange slot.
\* ======================================================================

\* exchange operations whose POST to /api/sessions has not been answered to the page
ExchangeOutstanding == {j \in DOMAIN exchOps : exchOps[j].phase = "awaitPost"}

\* ---- C21 ----
\* C21: for as long as the answer to a request to /api/users/me has not
\* reached the page, the fetchUser slot holds its operation and isFetching
\* is true, isPending is true if the mount effect waits for it, no step
\* issues another request and every fetchUser call (user code, mount
\* effect, exchange continuation) gets that operation; for as long as the
\* POST to /api/sessions is unanswered, its promise is pending and every
\* exchangeCodeForSessionToken call gets that pending promise.  Nothing but
\* the arrival of the answer ends either condition.
C21_StuckRequestStallsSlot ==
  /\ [](\A i \in Outstanding :
          /\ userRef = i
          /\ isFetching
          /\ i \in mountOps => isPending)
  /\ [][\A i \in Outstanding :
          /\ Len(fetchOps') = Len(fetchOps)
          /\ FetchUserCalled => (ret'.op = i /\ ret'.state = "pending")
          /\ \A j \in DOMAIN exchOps :
               ExchangeFetchUserCalled(j) => exchOps'[j].waitsOn = i
          /\ i \notin Outstanding' =>
               (fetchOps[i].resp # "none" /\ fetchOps'[i].phase # "awaitFetch")]_vars
  /\ [][\A j \in ExchangeOutstanding :
          /\ exchangeRef = j /\ exchangeRef' = j
          /\ Len(exchOps') = Len(exchOps)
          /\ (ret' # ret /\ ret'.fn = "exchange") =>
               ret' = Returned("exchange", "promise", j, "pending")
          /\ j \notin ExchangeOutstanding' => exchOps[j].resp # "none"]_vars

\* the mount-time request is unanswered; since then fetchUser was called
\* again and a successful exchange called it too: one request, all waiting
C21_Witness ==
  /\ Len(fetchOps) = 1
  /\ Outstanding = {1}
  /\ fetchOps[1].resp = "none"
  /\ mountOps = {1}
  /\ isPending /\ isFetching
  /\ phase = "running"
  /\ ret = Returned("fetchUser", "promise", 1, "pending")
  /\ Len(exchOps) = 1
  /\ exchOps[1].phase = "awaitFetchUser" /\ exchOps[1].waitsOn = 1


C23_ExchangeNeverRejects ==
  /\ [](\A j \in DOMAIN exchOps : exchOps[j].phase # "rejected")
  /\ [](ret.fn = "exchange" => ret.state # "rejected")
  /\ [][\A j \in DOMAIN exchOps :
          /\ (/\ exchOps[j].phase = "awaitPost"
              /\ exchOps[j].resp \in {"400", "neterr"}
              /\ exchOps'[j].phase # "awaitPost")
             => exchOps'[j].phase = "resolved"
          /\ (/\ exchOps[j].phase = "awaitFetchUser"
              /\ fetchOps'[exchOps[j].waitsOn].phase \in Settled)
             => exchOps'[j].phase = "resolved"]_vars

\* the POST succeeded, the fetch the exchange then waited for failed, and
\* a later call got the resolved promise
C23_Witness ==
  /\ Len(exchOps) = 1
  /\ exchOps[1].resp = "ok"
  /\ exchOps[1].phase = "resolved"
  /\ Len(fetchOps) = 1
  /\ fetchOps[1].phase = "rejected"
  /\ ret = Returned("exchange", "promise", 1, "resolved")

\* ---- C24 ----
\* C24: the exchange slot is non-empty exactly when one POST to
\* /api/sessions has been issued, and never more than one is; a call that
\* throws for a missing code leaves the slot empty, a call with a code and
\* an empty slot fills it and issues the POST, and a filled slot is never
\* emptied or replaced.
C24_SlotIffOnePost ==
  /\ []((exchangeRef # NoOp) <=> (Len(exchOps) = 1))
  /\ [](Len(exchOps) <= 1)
  /\ [][exchangeRef # NoOp => exchangeRef' = exchangeRef]_vars
  /\ [][(ret' # ret /\ ret'.fn = "exchange" /\ exchangeRef = NoOp) =>
          IF code \in {NoCode, ""}
          THEN ret'.kind = "throw" /\ exchangeRef' = NoOp /\ exchOps' = exchOps
          ELSE /\ exchangeRef' = 1
               /\ Len(exchOps') = 1
               /\ exchOps'[1].phase = "awaitPost" /\ exchOps'[1].code = code]_vars

\* the exchange has settled, the code has left the URL, and a call still
\* gets the one operation in the slot
C24_Witness ==
  /\ exchangeRef = 1
  /\ Len(exchOps) = 1
  /\ exchOps[1].phase = "resolved"
  /\ code = NoCode
  /\ ret = Returned("exchange", "promise", 1, "resolved")
====
